---- MODULE Spec2Model ----
(***************************************************************************)
(* Model of the blackjack basic-strategy trainer (cpp/): the strategy      *)
(* chart (strategy.cpp), the dealer-strength classifier of the statistics  *)
(* (stats.cpp) and the scenario generators of the training sessions        *)
(* (trainer.cpp).                                                          *)
(*                                                                         *)
(* Characters are modelled as one-letter strings; '\0' and "no value yet"  *)
(* as the string "none".  A std::vector<int> is a sequence of integers.    *)
(***************************************************************************)
EXTENDS Integers, Sequences, FiniteSets, TLC

VARIABLES
    pc,             \* position of the modelled caller
    mode,           \* get_mode_name() of the session object, or "direct"
    dealer_group_,  \* DealerGroupTrainingSession::dealer_group_
    hand_type_choice_, \* HandTypeTrainingSession::hand_type_choice_
    hand_type,      \* argument / scenario field
    player_total,   \* argument / scenario field
    dealer_card,    \* argument / scenario field
    player_cards,   \* result of generate_hand_cards / scenario field
    remaining,      \* local of generate_hand_cards
    correct_action, \* result of get_correct_action
    explanation,    \* result of get_explanation
    absolute,       \* result of is_absolute_rule
    dealer_strength, \* result of get_dealer_strength
    called,         \* the chart / statistics functions applied so far
    total_attempts_,     \* Statistics::total_attempts_
    correct_answers_,    \* Statistics::correct_answers_
    by_category_,        \* Statistics::by_category_
    by_dealer_strength_, \* Statistics::by_dealer_strength_
    recorded,       \* history: how often each (hand_type, dealer_strength,
                    \* correct) was passed to record_attempt since the
                    \* construction or the last reset_session
    question_count, \* local of TrainingSession::run
    correct_count_, \* TrainingSession::correct_count_
    total_count_,   \* TrainingSession::total_count_
    user_action,    \* local of TrainingSession::run
    correct,        \* local of TrainingSession::run
    quit_requested, \* local of TrainingSession::run
    generated,      \* history: number of generate_scenario calls of the run
    summary_printed, \* the session summary of run has been printed
    answered,       \* history: number of action prompts of this process
                    \* that were answered with a non-quit action
    choice          \* local of main: the last value display_menu returned

vars == <<pc, mode, dealer_group_, hand_type_choice_, hand_type, player_total,
          dealer_card, player_cards, remaining, correct_action, explanation,
          absolute, dealer_strength, called, total_attempts_,
          correct_answers_, by_category_, by_dealer_strength_, recorded,
          question_count, correct_count_, total_count_, user_action, correct,
          quit_requested, generated, summary_printed, answered, choice>>

statsVars == <<total_attempts_, correct_answers_, by_category_,
               by_dealer_strength_, recorded>>
runVars == <<question_count, correct_count_, total_count_, user_action,
             correct, quit_requested, summary_printed>>

mainVars == <<answered, choice>>

chartVars == <<correct_action, explanation, absolute, dealer_strength, called>>
genVars == <<mode, dealer_group_, hand_type_choice_, player_cards, remaining>>

(***************************************************************************)
(* Bounds of the argument sets the pure functions are applied to.          *)
(***************************************************************************)
MaxTotalArg == 23
MaxDealerArg == 13

HandTypeArgs == {"hard", "soft", "pair", "other"}
TotalArgs == 0..MaxTotalArg
DealerArgs == 0..MaxDealerArg

Min(a, b) == IF a < b THEN a ELSE b

RECURSIVE Sum(_)
Sum(s) == IF s = <<>> THEN 0 ELSE Head(s) + Sum(Tail(s))

(***************************************************************************)
(* StrategyChart: the three tables built by the constructor.  A std::map   *)
(* keyed by (total, dealer) is a function whose domain is the set of keys  *)
(* that were assigned.                                                     *)
(***************************************************************************)
Keys(totals) == {<<t, d>> : t \in totals, d \in 2..11}

\* build_hard_totals with hard 12 standing against 2-6 like 13-16
build_hard_totals_m ==
    [k \in Keys(5..8) |-> "H"]
    @@ [k \in Keys({9}) |-> IF k[2] >= 3 /\ k[2] <= 6 THEN "D" ELSE "H"]
    @@ [k \in Keys({10}) |-> IF k[2] >= 2 /\ k[2] <= 9 THEN "D" ELSE "H"]
    @@ [k \in Keys({11}) |-> IF k[2] <= 10 THEN "D" ELSE "H"]
    @@ [k \in Keys(12..16) |-> IF k[2] >= 2 /\ k[2] <= 6 THEN "S" ELSE "H"]
    @@ [k \in Keys(17..21) |-> "S"]

build_hard_totals ==
    [k \in Keys(5..8) |-> "H"]
    @@ [k \in Keys({9}) |-> IF k[2] >= 3 /\ k[2] <= 6 THEN "D" ELSE "H"]
    @@ [k \in Keys({10}) |-> IF k[2] >= 2 /\ k[2] <= 9 THEN "D" ELSE "H"]
    @@ [k \in Keys({11}) |-> IF k[2] <= 10 THEN "D" ELSE "H"]
    @@ [k \in Keys({12}) |-> IF k[2] >= 4 /\ k[2] <= 6 THEN "S" ELSE "H"]
    @@ [k \in Keys(13..16) |-> IF k[2] >= 2 /\ k[2] <= 6 THEN "S" ELSE "H"]
    @@ [k \in Keys(17..21) |-> "S"]

build_soft_totals ==
    [k \in Keys({13, 14}) |-> IF k[2] >= 5 /\ k[2] <= 6 THEN "D" ELSE "H"]
    @@ [k \in Keys({15, 16}) |-> IF k[2] >= 4 /\ k[2] <= 6 THEN "D" ELSE "H"]
    @@ [k \in Keys({17}) |-> IF k[2] >= 3 /\ k[2] <= 6 THEN "D" ELSE "H"]
    @@ [k \in Keys({18}) |->
            IF k[2] = 2 \/ k[2] = 7 \/ k[2] = 8 THEN "S"
            ELSE IF k[2] >= 3 /\ k[2] <= 6 THEN "D"
            ELSE "H"]
    @@ [k \in Keys({19, 20, 21}) |-> "S"]

\* build_pairs with 8,8 split only against 2-9
build_pairs_m ==
    [k \in Keys({11}) |-> "Y"]
    @@ [k \in Keys({2, 3}) |-> IF k[2] >= 2 /\ k[2] <= 7 THEN "Y" ELSE "H"]
    @@ [k \in Keys({4}) |-> IF k[2] >= 5 /\ k[2] <= 6 THEN "Y" ELSE "H"]
    @@ [k \in Keys({5}) |-> IF k[2] >= 2 /\ k[2] <= 9 THEN "D" ELSE "H"]
    @@ [k \in Keys({6}) |-> IF k[2] >= 2 /\ k[2] <= 6 THEN "Y" ELSE "H"]
    @@ [k \in Keys({7}) |-> IF k[2] >= 2 /\ k[2] <= 7 THEN "Y" ELSE "H"]
    @@ [k \in Keys({8}) |-> IF k[2] >= 2 /\ k[2] <= 9 THEN "Y" ELSE "H"]
    @@ [k \in Keys({9}) |->
            IF k[2] = 7 \/ k[2] = 10 \/ k[2] = 11 THEN "S" ELSE "Y"]
    @@ [k \in Keys({10}) |-> "S"]

build_pairs ==
    [k \in Keys({11}) |-> "Y"]
    @@ [k \in Keys({2, 3}) |-> IF k[2] >= 2 /\ k[2] <= 7 THEN "Y" ELSE "H"]
    @@ [k \in Keys({4}) |-> IF k[2] >= 5 /\ k[2] <= 6 THEN "Y" ELSE "H"]
    @@ [k \in Keys({5}) |-> IF k[2] >= 2 /\ k[2] <= 9 THEN "D" ELSE "H"]
    @@ [k \in Keys({6}) |-> IF k[2] >= 2 /\ k[2] <= 6 THEN "Y" ELSE "H"]
    @@ [k \in Keys({7}) |-> IF k[2] >= 2 /\ k[2] <= 7 THEN "Y" ELSE "H"]
    @@ [k \in Keys({8}) |-> "Y"]
    @@ [k \in Keys({9}) |->
            IF k[2] = 7 \/ k[2] = 10 \/ k[2] = 11 THEN "S" ELSE "Y"]
    @@ [k \in Keys({10}) |-> "S"]

hard_totals_ == build_hard_totals
soft_totals_ == build_soft_totals
pairs_ == build_pairs

\* mnemonics_, as filled by build_mnemonics
mnemonics_ ==
    [dealer_weak |-> "Dealer bust cards (4,5,6) = player gets greedy",
     always_split |-> "Aces and eights, don't hesitate",
     never_split |-> "Tens and fives, keep them alive",
     teens_vs_strong |-> "Teens stay vs weak, flee from strong",
     soft_17 |-> "A,7 is the tricky soft hand",
     hard_12 |-> "12 is the exception - only stand vs 4,5,6",
     doubles |-> "Double when dealer is weak and you can improve"]

\* dealer_groups_, as filled by the constructor (std::vector<int> each)
dealer_groups_ ==
    [weak |-> <<4, 5, 6>>, medium |-> <<2, 3, 7, 8>>, strong |-> <<9, 10, 11>>]

get_dealer_groups == dealer_groups_

Elems(s) == {s[i] : i \in 1..Len(s)}

\* a lookup whose miss yields Stand
Lookup_m(table, key) == IF key \in DOMAIN table THEN table[key] ELSE "S"

Lookup(table, key) == IF key \in DOMAIN table THEN table[key] ELSE "H"

\* get_correct_action answering the default for an unrecognized hand type
get_correct_action_m(ht, total, dealer) ==
    IF ht = "pair" THEN Lookup(pairs_, <<total, dealer>>)
    ELSE IF ht = "soft" THEN Lookup(soft_totals_, <<total, dealer>>)
    ELSE IF ht = "hard" THEN Lookup(hard_totals_, <<total, dealer>>)
    ELSE "H"

get_correct_action(ht, total, dealer) ==
    IF ht = "pair" THEN Lookup(pairs_, <<total, dealer>>)
    ELSE IF ht = "soft" THEN Lookup(soft_totals_, <<total, dealer>>)
    ELSE Lookup(hard_totals_, <<total, dealer>>)

\* get_explanation testing the dealer-weak group before the specific scenarios
get_explanation_m(ht, total, dealer) ==
    IF dealer \in Elems(dealer_groups_.weak) THEN mnemonics_.dealer_weak
    ELSE IF ht = "pair" /\ total = 11 THEN mnemonics_.always_split
    ELSE IF ht = "pair" /\ total = 8 THEN mnemonics_.always_split
    ELSE IF ht = "pair" /\ total = 10 THEN mnemonics_.never_split
    ELSE IF ht = "pair" /\ total = 5 THEN mnemonics_.never_split
    ELSE IF ht = "soft" /\ total = 18 THEN mnemonics_.soft_17
    ELSE IF ht = "hard" /\ total = 12 THEN mnemonics_.hard_12
    ELSE IF total >= 13 /\ total <= 16
            /\ dealer \in Elems(dealer_groups_.strong)
         THEN mnemonics_.teens_vs_strong
    ELSE "Follow basic strategy patterns"

get_explanation(ht, total, dealer) ==
    IF ht = "pair" /\ total = 11 THEN mnemonics_.always_split
    ELSE IF ht = "pair" /\ total = 8 THEN mnemonics_.always_split
    ELSE IF ht = "pair" /\ total = 10 THEN mnemonics_.never_split
    ELSE IF ht = "pair" /\ total = 5 THEN mnemonics_.never_split
    ELSE IF ht = "soft" /\ total = 18 THEN mnemonics_.soft_17
    ELSE IF ht = "hard" /\ total = 12 THEN mnemonics_.hard_12
    ELSE IF dealer \in Elems(dealer_groups_.weak) THEN mnemonics_.dealer_weak
    ELSE IF total >= 13 /\ total <= 16
            /\ dealer \in Elems(dealer_groups_.strong)
         THEN mnemonics_.teens_vs_strong
    ELSE "Follow basic strategy patterns"

\* is_absolute_rule with hard totals above 17 only
is_absolute_rule_m(ht, total, dealer) ==
    IF ht = "pair" /\ (total = 11 \/ total = 8 \/ total = 10 \/ total = 5)
    THEN TRUE
    ELSE IF ht = "hard" /\ total > 17 THEN TRUE
    ELSE IF ht = "soft" /\ total >= 19 THEN TRUE
    ELSE FALSE

is_absolute_rule(ht, total, dealer) ==
    IF ht = "pair" /\ (total = 11 \/ total = 8 \/ total = 10 \/ total = 5)
    THEN TRUE
    ELSE IF ht = "hard" /\ total >= 17 THEN TRUE
    ELSE IF ht = "soft" /\ total >= 19 THEN TRUE
    ELSE FALSE

(***************************************************************************)
(* Statistics::get_dealer_strength                                         *)
(***************************************************************************)
\* get_dealer_strength naming the cards 7 and 8 "neutral"
get_dealer_strength_neutral(dealer) ==
    IF dealer = 4 \/ dealer = 5 \/ dealer = 6 THEN "weak"
    ELSE IF dealer = 2 \/ dealer = 3 THEN "medium"
    ELSE IF dealer = 7 \/ dealer = 8 THEN "neutral"
    ELSE "strong"

\* get_dealer_strength with 8 missing from the medium test
get_dealer_strength_m(dealer) ==
    IF dealer = 4 \/ dealer = 5 \/ dealer = 6 THEN "weak"
    ELSE IF dealer = 2 \/ dealer = 3 \/ dealer = 7 THEN "medium"
    ELSE "strong"

get_dealer_strength(dealer) ==
    IF dealer = 4 \/ dealer = 5 \/ dealer = 6 THEN "weak"
    ELSE IF dealer = 2 \/ dealer = 3 \/ dealer = 7 \/ dealer = 8 THEN "medium"
    ELSE "strong"

(***************************************************************************)
(* Statistics (stats.cpp).  A std::map<std::string, CategoryData> is a     *)
(* function from its keys to records; a double percentage is the exact     *)
(* fraction num / den (floating-point rounding is not modelled).           *)
(***************************************************************************)
CategoryData == [correct |-> 0, total |-> 0]

CategoryNames == {"hard", "soft", "pair"}
StrengthNames == {"weak", "medium", "strong"}

\* the arguments record_attempt and the accuracy getters are applied to
CategoryArgs == CategoryNames \cup {"other"}
StrengthArgs == StrengthNames \cup {"other"}
AttemptKinds == CategoryArgs \X StrengthArgs \X BOOLEAN

NoAttempts == [k \in AttemptKinds |-> 0]

\* Statistics::Statistics
StatisticsInit ==
    /\ total_attempts_ = 0
    /\ correct_answers_ = 0
    /\ by_category_ = [k \in CategoryNames |-> CategoryData]
    /\ by_dealer_strength_ = [k \in StrengthNames |-> CategoryData]
    /\ recorded = NoAttempts

\* the session fields and the locals of run before the first question
RunInit ==
    /\ question_count = 0
    /\ correct_count_ = 0
    /\ total_count_ = 0
    /\ user_action = "none"
    /\ correct = FALSE
    /\ quit_requested = FALSE
    /\ generated = 0
    /\ summary_printed = FALSE
    /\ answered = 0
    /\ choice = 0

\* one bucket after an attempt was counted in it
Counted(data, c) ==
    [total |-> data.total + 1,
     correct |-> IF c THEN data.correct + 1 ELSE data.correct]

\* record_attempt counting an attempt under a key that the map lacks
\* (operator[] without the find guard)
record_attempt_nokey(ht, ds, c) ==
    /\ total_attempts_' = total_attempts_ + 1
    /\ correct_answers_' = IF c THEN correct_answers_ + 1 ELSE correct_answers_
    /\ by_category_' =
         IF ht \in DOMAIN by_category_
         THEN [by_category_ EXCEPT ![ht] = Counted(@, c)]
         ELSE (ht :> Counted(CategoryData, c)) @@ by_category_
    /\ by_dealer_strength_' =
         IF ds \in DOMAIN by_dealer_strength_
         THEN [by_dealer_strength_ EXCEPT ![ds] = Counted(@, c)]
         ELSE by_dealer_strength_

\* record_attempt counting the correct answers but not the attempts of a
\* dealer-strength bucket
record_attempt_nototal(ht, ds, c) ==
    /\ total_attempts_' = total_attempts_ + 1
    /\ correct_answers_' = IF c THEN correct_answers_ + 1 ELSE correct_answers_
    /\ by_category_' =
         IF ht \in DOMAIN by_category_
         THEN [by_category_ EXCEPT ![ht] = Counted(@, c)]
         ELSE by_category_
    /\ by_dealer_strength_' =
         IF ds \in DOMAIN by_dealer_strength_
         THEN [by_dealer_strength_ EXCEPT
                 ![ds] = [total |-> @.total,
                          correct |-> IF c THEN @.correct + 1 ELSE @.correct]]
         ELSE by_dealer_strength_

\* Statistics::record_attempt
record_attempt(ht, ds, c) ==
    /\ total_attempts_' = total_attempts_ + 1
    /\ correct_answers_' = IF c THEN correct_answers_ + 1 ELSE correct_answers_
    /\ by_category_' =
         IF ht \in DOMAIN by_category_
         THEN [by_category_ EXCEPT ![ht] = Counted(@, c)]
         ELSE by_category_
    /\ by_dealer_strength_' =
         IF ds \in DOMAIN by_dealer_strength_
         THEN [by_dealer_strength_ EXCEPT ![ds] = Counted(@, c)]
         ELSE by_dealer_strength_

\* the history after record_attempt(ht, ds, c)
Remember(ht, ds, c) ==
    recorded' = [recorded EXCEPT ![<<ht, ds, c>>] = @ + 1]

\* (correct / total) * 100.0
Percentage(count, total) == [num |-> 100 * count, den |-> total]

\* 0.0
ZeroPercent == [num |-> 0, den |-> 1]

get_category_accuracy(category) ==
    IF category \notin DOMAIN by_category_ \/ by_category_[category].total = 0
    THEN ZeroPercent
    ELSE Percentage(by_category_[category].correct, by_category_[category].total)

get_dealer_strength_accuracy(strength) ==
    IF strength \notin DOMAIN by_dealer_strength_
       \/ by_dealer_strength_[strength].total = 0
    THEN ZeroPercent
    ELSE Percentage(by_dealer_strength_[strength].correct,
                    by_dealer_strength_[strength].total)

get_session_accuracy ==
    IF total_attempts_ = 0 THEN ZeroPercent
    ELSE Percentage(correct_answers_, total_attempts_)

\* reset_session leaving the buckets as they are
reset_session_m ==
    /\ total_attempts_' = 0
    /\ correct_answers_' = 0
    /\ UNCHANGED <<by_category_, by_dealer_strength_>>

\* Statistics::reset_session
reset_session ==
    /\ total_attempts_' = 0
    /\ correct_answers_' = 0
    /\ by_category_' = [k \in DOMAIN by_category_ |-> CategoryData]
    /\ by_dealer_strength_' = [k \in DOMAIN by_dealer_strength_ |-> CategoryData]

(***************************************************************************)
(* SpecChart: the chart functions applied to arguments drawn from the      *)
(* bounded argument sets.                                                  *)
(***************************************************************************)
InitChart ==
    /\ pc = "query"
    /\ mode = "direct"
    /\ dealer_group_ = 0
    /\ hand_type_choice_ = 0
    /\ hand_type \in HandTypeArgs
    /\ player_total \in TotalArgs
    /\ dealer_card \in DealerArgs
    /\ player_cards = <<>>
    /\ remaining = 0
    /\ correct_action = "none"
    /\ explanation = "none"
    /\ absolute = FALSE
    /\ dealer_strength = "none"
    /\ called = {}
    /\ StatisticsInit
    /\ RunInit

CallGetCorrectAction ==
    /\ pc = "query"
    /\ "get_correct_action" \notin called
    /\ called' = called \cup {"get_correct_action"}
    /\ correct_action' = get_correct_action(hand_type, player_total, dealer_card)
    /\ UNCHANGED <<pc, hand_type, player_total, dealer_card, genVars, statsVars, runVars, mainVars,
                   generated,
                   explanation, absolute, dealer_strength>>

CallGetExplanation ==
    /\ pc = "query"
    /\ "get_explanation" \notin called
    /\ called' = called \cup {"get_explanation"}
    /\ explanation' = get_explanation(hand_type, player_total, dealer_card)
    /\ UNCHANGED <<pc, hand_type, player_total, dealer_card, genVars, statsVars, runVars, mainVars,
                   generated,
                   correct_action, absolute, dealer_strength>>

CallIsAbsoluteRule ==
    /\ pc = "query"
    /\ "is_absolute_rule" \notin called
    /\ called' = called \cup {"is_absolute_rule"}
    /\ absolute' = is_absolute_rule(hand_type, player_total, dealer_card)
    /\ UNCHANGED <<pc, hand_type, player_total, dealer_card, genVars, statsVars, runVars, mainVars,
                   generated,
                   correct_action, explanation, dealer_strength>>

CallGetDealerStrength ==
    /\ pc = "query"
    /\ "get_dealer_strength" \notin called
    /\ called' = called \cup {"get_dealer_strength"}
    /\ dealer_strength' = get_dealer_strength(dealer_card)
    /\ UNCHANGED <<pc, hand_type, player_total, dealer_card, genVars, statsVars, runVars, mainVars,
                   generated,
                   correct_action, explanation, absolute>>

NextChart ==
    \/ CallGetCorrectAction
    \/ CallGetExplanation
    \/ CallIsAbsoluteRule
    \/ CallGetDealerStrength

SpecChart == InitChart /\ [][NextChart]_vars

(***************************************************************************)
(* The rule table of section 4.1 of the specification, row by row.         *)
(***************************************************************************)
HardRule(t, d) ==
    CASE t \in 5..8 -> "H"
      [] t = 9 -> IF d \in 3..6 THEN "D" ELSE "H"
      [] t = 10 -> IF d \in 2..9 THEN "D" ELSE "H"
      [] t = 11 -> IF d \in 2..10 THEN "D" ELSE "H"
      [] t = 12 -> IF d \in 4..6 THEN "S" ELSE "H"
      [] t \in 13..16 -> IF d \in 2..6 THEN "S" ELSE "H"
      [] t \in 17..21 -> "S"

SoftRule(t, d) ==
    CASE t \in 13..14 -> IF d \in 5..6 THEN "D" ELSE "H"
      [] t \in 15..16 -> IF d \in 4..6 THEN "D" ELSE "H"
      [] t = 17 -> IF d \in 3..6 THEN "D" ELSE "H"
      [] t = 18 -> IF d \in {2, 7, 8} THEN "S"
                   ELSE IF d \in 3..6 THEN "D" ELSE "H"
      [] t \in 19..21 -> "S"

PairRule(t, d) ==
    CASE t = 11 -> "Y"
      [] t \in 2..3 -> IF d \in 2..7 THEN "Y" ELSE "H"
      [] t = 4 -> IF d \in 5..6 THEN "Y" ELSE "H"
      [] t = 5 -> IF d \in 2..9 THEN "D" ELSE "H"
      [] t = 6 -> IF d \in 2..6 THEN "Y" ELSE "H"
      [] t = 7 -> IF d \in 2..7 THEN "Y" ELSE "H"
      [] t = 8 -> "Y"
      [] t = 9 -> IF d \in {7, 10, 11} THEN "S" ELSE "Y"
      [] t = 10 -> "S"

ValidTotals(ht) ==
    CASE ht = "hard" -> 5..21
      [] ht = "soft" -> 13..21
      [] ht = "pair" -> 2..11
      [] OTHER -> {}

RuleTable(ht, t, d) ==
    CASE ht = "hard" -> HardRule(t, d)
      [] ht = "soft" -> SoftRule(t, d)
      [] ht = "pair" -> PairRule(t, d)

InTable(ht, t, d) == t \in ValidTotals(ht) /\ d \in 2..11

Asked(f) == f \in called

\* C1: for every hand type in {hard, soft, pair}, every total of that type's
\* valid range and every dealer card 2-11, get_correct_action returns one of
\* H, S, D, Y and the action equals the rule table of section 4.1.
C1_ActionMatchesRuleTable ==
    (Asked("get_correct_action") /\ InTable(hand_type, player_total, dealer_card))
        => /\ correct_action \in {"H", "S", "D", "Y"}
           /\ correct_action = RuleTable(hand_type, player_total, dealer_card)

C1_Witness ==
    /\ Asked("get_correct_action")
    /\ hand_type = "pair" /\ player_total = 9 /\ dealer_card = 7
    /\ correct_action = "S"

\* C2: get_correct_action returns Hit whenever (total, dealer card) is not a
\* key of the queried hand type's table: a total outside the type's range, a
\* total valid only for another type, or a dealer card outside 2-11.
C2_MissDefaultsToHit ==
    (/\ Asked("get_correct_action")
     /\ hand_type \in {"hard", "soft", "pair"}
     /\ ~InTable(hand_type, player_total, dealer_card))
        => correct_action = "H"

C2_Witness ==
    /\ Asked("get_correct_action")
    /\ hand_type = "soft" /\ player_total = 12 /\ dealer_card = 5
    /\ correct_action = "H"

\* C3: is_absolute_rule is true exactly for pair 5/8/10/11, hard >= 17 and
\* soft >= 19, and its result is the same for every dealer card.
C3_AbsoluteRuleIff ==
    Asked("is_absolute_rule")
        => /\ absolute = TRUE <=>
                \/ hand_type = "pair" /\ player_total \in {5, 8, 10, 11}
                \/ hand_type = "hard" /\ player_total >= 17
                \/ hand_type = "soft" /\ player_total >= 19
           /\ \A d \in DealerArgs :
                is_absolute_rule(hand_type, player_total, d) = absolute

C3_Witness ==
    /\ Asked("is_absolute_rule")
    /\ hand_type = "soft" /\ player_total = 19 /\ absolute = TRUE

\* C4 (as stated): for every (hand type, total) of the table domain for which
\* is_absolute_rule is true, get_correct_action returns the same action for
\* all dealer cards 2-11.
C4_AbsoluteActionConstant ==
    (/\ Asked("is_absolute_rule") /\ Asked("get_correct_action")
     /\ InTable(hand_type, player_total, dealer_card)
     /\ absolute = TRUE)
        => \A d \in 2..11 :
             get_correct_action(hand_type, player_total, d) = correct_action

\* C4 (amended): the action is the same for all dealer cards 2-11 for every
\* absolute rule except pair 5; for pair 5 the action is never Split: it is
\* Double against 2-9 and Hit against 10 and 11.
C4_AbsoluteActionConstantExceptFives ==
    (/\ Asked("is_absolute_rule") /\ Asked("get_correct_action")
     /\ InTable(hand_type, player_total, dealer_card)
     /\ absolute = TRUE)
        => IF hand_type = "pair" /\ player_total = 5
           THEN correct_action = (IF dealer_card \in 2..9 THEN "D" ELSE "H")
           ELSE \A d \in 2..11 :
                  get_correct_action(hand_type, player_total, d) = correct_action

C4_Witness ==
    /\ Asked("is_absolute_rule") /\ Asked("get_correct_action")
    /\ absolute = TRUE
    /\ hand_type = "pair" /\ player_total = 5 /\ dealer_card = 10
    /\ correct_action = "H"

\* C5: get_explanation selects its text by priority: the specific mnemonic
\* for pair 11, pair 8, pair 10, pair 5, soft 18 and hard 12; otherwise the
\* dealer-weak mnemonic against 4, 5, 6; otherwise the teens-vs-strong
\* mnemonic for totals 13-16 against 9, 10, 11; otherwise the generic text.
C5_ExplanationPriority ==
    Asked("get_explanation")
        => explanation =
             CASE hand_type = "pair" /\ player_total \in {11, 8} ->
                    "Aces and eights, don't hesitate"
               [] hand_type = "pair" /\ player_total \in {10, 5} ->
                    "Tens and fives, keep them alive"
               [] hand_type = "soft" /\ player_total = 18 ->
                    "A,7 is the tricky soft hand"
               [] hand_type = "hard" /\ player_total = 12 ->
                    "12 is the exception - only stand vs 4,5,6"
               [] OTHER ->
                    IF dealer_card \in {4, 5, 6}
                    THEN "Dealer bust cards (4,5,6) = player gets greedy"
                    ELSE IF player_total \in 13..16 /\ dealer_card \in {9, 10, 11}
                    THEN "Teens stay vs weak, flee from strong"
                    ELSE "Follow basic strategy patterns"

C5_Witness ==
    /\ Asked("get_explanation")
    /\ hand_type = "hard" /\ player_total = 12 /\ dealer_card = 5
    /\ explanation = "12 is the exception - only stand vs 4,5,6"

(***************************************************************************)
(* Scenario generation (trainer.cpp).  Every draw from a                   *)
(* std::uniform_int_distribution is a nondeterministic choice over its     *)
(* range.                                                                  *)
(***************************************************************************)
MaxSubChoice == 4

\* what display_dealer_groups / display_hand_types can return
SubChoices == 0..MaxSubChoice

hand_types == <<"hard", "soft", "pair">>
pair_values == <<2, 3, 4, 5, 6, 7, 8, 9, 10, 11>>

\* the dealer card lists with a 9 among the medium cards
DealerGroupCards_m(group) ==
    IF group = 1 THEN <<4, 5, 6>>
    ELSE IF group = 2 THEN <<2, 3, 7, 9>>
    ELSE <<9, 10, 11>>

\* the card list DealerGroupTrainingSession::generate_scenario draws from
DealerGroupCards(group) ==
    IF group = 1 THEN <<4, 5, 6>>
    ELSE IF group = 2 THEN <<2, 3, 7, 8>>
    ELSE <<9, 10, 11>>

\* the absolutes table listing hard 16 in the place of hard 17
absolutes_sixteen ==
    << [hand_type |-> "pair", player_cards |-> <<11, 11>>, player_total |-> 11],
       [hand_type |-> "pair", player_cards |-> <<8, 8>>, player_total |-> 8],
       [hand_type |-> "pair", player_cards |-> <<10, 10>>, player_total |-> 10],
       [hand_type |-> "pair", player_cards |-> <<5, 5>>, player_total |-> 5],
       [hand_type |-> "hard", player_cards |-> <<>>, player_total |-> 16],
       [hand_type |-> "hard", player_cards |-> <<>>, player_total |-> 18],
       [hand_type |-> "hard", player_cards |-> <<>>, player_total |-> 19],
       [hand_type |-> "hard", player_cards |-> <<>>, player_total |-> 20],
       [hand_type |-> "soft", player_cards |-> <<11, 8>>, player_total |-> 19],
       [hand_type |-> "soft", player_cards |-> <<11, 9>>, player_total |-> 20] >>

\* the absolutes table with the hard entries carrying a first card
absolutes_m ==
    << [hand_type |-> "pair", player_cards |-> <<11, 11>>, player_total |-> 11],
       [hand_type |-> "pair", player_cards |-> <<8, 8>>, player_total |-> 8],
       [hand_type |-> "pair", player_cards |-> <<10, 10>>, player_total |-> 10],
       [hand_type |-> "pair", player_cards |-> <<5, 5>>, player_total |-> 5],
       [hand_type |-> "hard", player_cards |-> <<10>>, player_total |-> 17],
       [hand_type |-> "hard", player_cards |-> <<>>, player_total |-> 18],
       [hand_type |-> "hard", player_cards |-> <<>>, player_total |-> 19],
       [hand_type |-> "hard", player_cards |-> <<>>, player_total |-> 20],
       [hand_type |-> "soft", player_cards |-> <<11, 8>>, player_total |-> 19],
       [hand_type |-> "soft", player_cards |-> <<11, 9>>, player_total |-> 20] >>

\* the table of AbsoluteTrainingSession::generate_scenario
absolutes ==
    << [hand_type |-> "pair", player_cards |-> <<11, 11>>, player_total |-> 11],
       [hand_type |-> "pair", player_cards |-> <<8, 8>>, player_total |-> 8],
       [hand_type |-> "pair", player_cards |-> <<10, 10>>, player_total |-> 10],
       [hand_type |-> "pair", player_cards |-> <<5, 5>>, player_total |-> 5],
       [hand_type |-> "hard", player_cards |-> <<>>, player_total |-> 17],
       [hand_type |-> "hard", player_cards |-> <<>>, player_total |-> 18],
       [hand_type |-> "hard", player_cards |-> <<>>, player_total |-> 19],
       [hand_type |-> "hard", player_cards |-> <<>>, player_total |-> 20],
       [hand_type |-> "soft", player_cards |-> <<11, 8>>, player_total |-> 19],
       [hand_type |-> "soft", player_cards |-> <<11, 9>>, player_total |-> 20] >>

\* get_max_questions of the session object
get_max_questions ==
    IF mode = "absolutes" THEN 20 ELSE 50

\* The questions of a session that are explored: its first MaxAsked and its
\* last MaxAsked ones.
MaxAsked == 1

Explored(count) ==
    count < MaxAsked \/ count >= get_max_questions - MaxAsked

\* where generate_hand_cards returns to
ReturnPoint == IF mode = "direct" THEN "returned" ELSE "scenario"

\* generate_hand_cards returns `cards` without entering the peel-off loop
ReturnCards(cards) ==
    /\ player_cards' = cards
    /\ remaining' = 0
    /\ pc' = ReturnPoint

\* generate_hand_cards returning a single card up to 12
generate_hand_cards_twelve(ht, total) ==
    IF ht = "pair" THEN ReturnCards(<<total, total>>)
    ELSE IF ht = "soft" THEN ReturnCards(<<11, total - 11>>)
    ELSE IF total <= 12 THEN ReturnCards(<<total>>)
    ELSE \E first_card \in 2..Min(10, total - 2) :
           LET second_card == total - first_card IN
           IF second_card > 10
           THEN /\ player_cards' = <<first_card>>
                /\ remaining' = total - first_card
                /\ pc' = "loop"
           ELSE IF second_card < 2 THEN ReturnCards(<<total>>)
           ELSE ReturnCards(<<first_card, second_card>>)

\* generate_hand_cards returning a single card only up to 10
generate_hand_cards_low(ht, total) ==
    IF ht = "pair" THEN ReturnCards(<<total, total>>)
    ELSE IF ht = "soft" THEN ReturnCards(<<11, total - 11>>)
    ELSE IF total <= 10 THEN ReturnCards(<<total>>)
    ELSE \E first_card \in 2..Min(10, total - 2) :
           LET second_card == total - first_card IN
           IF second_card > 10
           THEN /\ player_cards' = <<first_card>>
                /\ remaining' = total - first_card
                /\ pc' = "loop"
           ELSE IF second_card < 2 THEN ReturnCards(<<total>>)
           ELSE ReturnCards(<<first_card, second_card>>)

\* generate_hand_cards accepting a second card of 11
generate_hand_cards_m(ht, total) ==
    IF ht = "pair" THEN ReturnCards(<<total, total>>)
    ELSE IF ht = "soft" THEN ReturnCards(<<11, total - 11>>)
    ELSE IF total <= 11 THEN ReturnCards(<<total>>)
    ELSE \E first_card \in 2..Min(10, total - 2) :
           LET second_card == total - first_card IN
           IF second_card > 11
           THEN /\ player_cards' = <<first_card>>
                /\ remaining' = total - first_card
                /\ pc' = "loop"
           ELSE IF second_card < 2 THEN ReturnCards(<<total>>)
           ELSE ReturnCards(<<first_card, second_card>>)

\* TrainingSession::generate_hand_cards up to the head of its while loop
generate_hand_cards(ht, total) ==
    IF ht = "pair" THEN ReturnCards(<<total, total>>)
    ELSE IF ht = "soft" THEN ReturnCards(<<11, total - 11>>)
    ELSE IF total <= 11 THEN ReturnCards(<<total>>)
    ELSE \E first_card \in 2..Min(10, total - 2) :
           LET second_card == total - first_card IN
           IF second_card > 10
           THEN /\ player_cards' = <<first_card>>
                /\ remaining' = total - first_card
                /\ pc' = "loop"
           ELSE IF second_card < 2 THEN ReturnCards(<<total>>)
           ELSE ReturnCards(<<first_card, second_card>>)

\* an iteration of the while loop whose card may be 1
PeelCard_m ==
    /\ pc = "loop"
    /\ remaining > 10
    /\ Min(10, remaining - 2) >= 2
    /\ \E card \in 1..Min(10, remaining - 2) :
         /\ player_cards' = Append(player_cards, card)
         /\ remaining' = remaining - card
    /\ UNCHANGED <<pc, mode, dealer_group_, hand_type_choice_, hand_type,
                   player_total, dealer_card, chartVars, statsVars, runVars, mainVars,
                   generated>>

\* one iteration of the while loop of generate_hand_cards that draws a card
PeelCard ==
    /\ pc = "loop"
    /\ remaining > 10
    /\ Min(10, remaining - 2) >= 2
    /\ \E card \in 2..Min(10, remaining - 2) :
         /\ player_cards' = Append(player_cards, card)
         /\ remaining' = remaining - card
    /\ UNCHANGED <<pc, mode, dealer_group_, hand_type_choice_, hand_type,
                   player_total, dealer_card, chartVars, statsVars, runVars, mainVars,
                   generated>>

\* FinishCards pushing the rest only when it exceeds 2
FinishCards_m ==
    /\ pc = "loop"
    /\ ~(remaining > 10 /\ Min(10, remaining - 2) >= 2)
    /\ player_cards' = IF remaining > 2 THEN Append(player_cards, remaining)
                       ELSE player_cards
    /\ pc' = ReturnPoint
    /\ UNCHANGED <<remaining, mode, dealer_group_, hand_type_choice_, hand_type,
                   player_total, dealer_card, chartVars, statsVars, runVars, mainVars,
                   generated>>

\* the loop ends (condition false, or break), the rest is pushed and the
\* cards are returned
FinishCards ==
    /\ pc = "loop"
    /\ ~(remaining > 10 /\ Min(10, remaining - 2) >= 2)
    /\ player_cards' = IF remaining >= 2 THEN Append(player_cards, remaining)
                       ELSE player_cards
    /\ pc' = ReturnPoint
    /\ UNCHANGED <<remaining, mode, dealer_group_, hand_type_choice_, hand_type,
                   player_total, dealer_card, chartVars, statsVars, runVars, mainVars,
                   generated>>

\* RandomHand drawing the other card of a soft hand from 2..10
RandomHand_m ==
    \E i \in 1..Len(hand_types) :
      LET ht == hand_types[i] IN
      /\ hand_type' = ht
      /\ IF ht = "pair"
         THEN \E j \in 1..Len(pair_values) :
                /\ player_total' = pair_values[j]
                /\ ReturnCards(<<pair_values[j], pair_values[j]>>)
         ELSE IF ht = "soft"
         THEN \E other_card \in 2..10 :
                /\ player_total' = 11 + other_card
                /\ ReturnCards(<<11, other_card>>)
         ELSE \E total \in 5..20 :
                /\ player_total' = total
                /\ generate_hand_cards(ht, total)

\* the hand-type / total / cards part shared by the random and dealer-group
\* generators
RandomHand ==
    \E i \in 1..Len(hand_types) :
      LET ht == hand_types[i] IN
      /\ hand_type' = ht
      /\ IF ht = "pair"
         THEN \E j \in 1..Len(pair_values) :
                /\ player_total' = pair_values[j]
                /\ ReturnCards(<<pair_values[j], pair_values[j]>>)
         ELSE IF ht = "soft"
         THEN \E other_card \in 2..9 :
                /\ player_total' = 11 + other_card
                /\ ReturnCards(<<11, other_card>>)
         ELSE \E total \in 5..20 :
                /\ player_total' = total
                /\ generate_hand_cards(ht, total)

RandomGenerateScenario ==
    /\ dealer_card' \in 2..11
    /\ RandomHand

DealerGroupGenerateScenario ==
    /\ dealer_card' \in Elems(DealerGroupCards(dealer_group_))
    /\ RandomHand

\* the hand-type session drawing hard totals from 4
HandTypeGenerateScenario_m ==
    /\ dealer_card' \in 2..11
    /\ IF hand_type_choice_ = 1
       THEN \E total \in 4..20 :
              /\ player_total' = total
              /\ generate_hand_cards("hard", total)
              /\ hand_type' = "hard"
       ELSE IF hand_type_choice_ = 2
       THEN \E other_card \in 2..9 :
              /\ ReturnCards(<<11, other_card>>)
              /\ player_total' = 11 + other_card
              /\ hand_type' = "soft"
       ELSE \E j \in 1..Len(pair_values) :
              /\ ReturnCards(<<pair_values[j], pair_values[j]>>)
              /\ player_total' = pair_values[j]
              /\ hand_type' = "pair"

HandTypeGenerateScenario ==
    /\ dealer_card' \in 2..11
    /\ IF hand_type_choice_ = 1
       THEN \E total \in 5..20 :
              /\ player_total' = total
              /\ generate_hand_cards("hard", total)
              /\ hand_type' = "hard"
       ELSE IF hand_type_choice_ = 2
       THEN \E other_card \in 2..9 :
              /\ ReturnCards(<<11, other_card>>)
              /\ player_total' = 11 + other_card
              /\ hand_type' = "soft"
       ELSE \E j \in 1..Len(pair_values) :
              /\ ReturnCards(<<pair_values[j], pair_values[j]>>)
              /\ player_total' = pair_values[j]
              /\ hand_type' = "pair"

AbsoluteGenerateScenario ==
    \E i \in 1..Len(absolutes) :
      LET scenario == absolutes[i] IN
      /\ dealer_card' \in 2..11
      /\ IF scenario.player_cards = <<>>
         THEN generate_hand_cards(scenario.hand_type, scenario.player_total)
         ELSE ReturnCards(scenario.player_cards)
      /\ hand_type' = scenario.hand_type
      /\ player_total' = scenario.player_total

\* setup_session accepting the sub-choices 1, 2, 3 only
SetupSession_strict ==
    /\ pc = "start"
    /\ mode # "direct"
    /\ IF mode = "dealer_groups"
       THEN /\ dealer_group_' \in SubChoices
            /\ pc' = IF dealer_group_' \in 1..3 THEN "ready" ELSE "cancelled"
            /\ UNCHANGED hand_type_choice_
       ELSE IF mode = "hand_types"
       THEN /\ hand_type_choice_' \in SubChoices
            /\ pc' = IF hand_type_choice_' \in 1..3 THEN "ready" ELSE "cancelled"
            /\ UNCHANGED dealer_group_
       ELSE /\ pc' = "ready"
            /\ UNCHANGED <<dealer_group_, hand_type_choice_>>
    /\ UNCHANGED <<mode, hand_type, player_total, dealer_card, player_cards,
                   remaining, chartVars, statsVars, runVars, mainVars, generated>>

\* setup_session with the hand-type session accepting every sub-choice
SetupSession_m ==
    /\ pc = "start"
    /\ mode # "direct"
    /\ IF mode = "dealer_groups"
       THEN /\ dealer_group_' \in SubChoices
            /\ pc' = IF dealer_group_' # 0 THEN "ready" ELSE "cancelled"
            /\ UNCHANGED hand_type_choice_
       ELSE IF mode = "hand_types"
       THEN /\ hand_type_choice_' \in SubChoices
            /\ pc' = "ready"
            /\ UNCHANGED dealer_group_
       ELSE /\ pc' = "ready"
            /\ UNCHANGED <<dealer_group_, hand_type_choice_>>
    /\ UNCHANGED <<mode, hand_type, player_total, dealer_card, player_cards,
                   remaining, chartVars, statsVars, runVars, mainVars, generated>>

\* setup_session of the session object: the base class accepts, the
\* dealer-group and hand-type sessions ask for a sub-choice
SetupSession ==
    /\ pc = "start"
    /\ mode # "direct"
    /\ IF mode = "dealer_groups"
       THEN /\ dealer_group_' \in SubChoices
            /\ pc' = IF dealer_group_' # 0 THEN "ready" ELSE "cancelled"
            /\ UNCHANGED hand_type_choice_
       ELSE IF mode = "hand_types"
       THEN /\ hand_type_choice_' \in SubChoices
            /\ pc' = IF hand_type_choice_' # 0 THEN "ready" ELSE "cancelled"
            /\ UNCHANGED dealer_group_
       ELSE /\ pc' = "ready"
            /\ UNCHANGED <<dealer_group_, hand_type_choice_>>
    /\ UNCHANGED <<mode, hand_type, player_total, dealer_card, player_cards,
                   remaining, chartVars, statsVars, runVars, mainVars, generated>>

\* generate_scenario of the session object, dispatched on its class
GenerateScenario ==
    /\ pc = "ready"
    /\ question_count < get_max_questions
    /\ Explored(question_count)
    /\ generated' = generated + 1
    /\ IF mode = "random" THEN RandomGenerateScenario
       ELSE IF mode = "dealer_groups" THEN DealerGroupGenerateScenario
       ELSE IF mode = "hand_types" THEN HandTypeGenerateScenario
       ELSE AbsoluteGenerateScenario
    /\ UNCHANGED <<mode, dealer_group_, hand_type_choice_, chartVars, statsVars,
                   runVars, mainVars>>

\* a direct call of generate_hand_cards, as the hand-generation tests make
CallGenerateHandCards ==
    /\ pc = "start"
    /\ mode = "direct"
    /\ \E ht \in HandTypeArgs, total \in TotalArgs :
         /\ hand_type' = ht
         /\ player_total' = total
         /\ generate_hand_cards(ht, total)
    /\ UNCHANGED <<mode, dealer_group_, hand_type_choice_, dealer_card,
                   chartVars, statsVars, runVars, mainVars, generated>>

InitGen ==
    /\ pc = "start"
    /\ mode \in {"random", "dealer_groups", "hand_types", "absolutes", "direct"}
    /\ dealer_group_ = 0
    /\ hand_type_choice_ = 0
    /\ hand_type = "none"
    /\ player_total = 0
    /\ dealer_card = 0
    /\ player_cards = <<>>
    /\ remaining = 0
    /\ correct_action = "none"
    /\ explanation = "none"
    /\ absolute = FALSE
    /\ dealer_strength = "none"
    /\ called = {}
    /\ StatisticsInit
    /\ RunInit

NextGen ==
    \/ SetupSession
    \/ GenerateScenario
    \/ CallGenerateHandCards
    \/ PeelCard
    \/ FinishCards

SpecGen == InitGen /\ [][NextGen]_vars

\* C6: the groups weak = {4,5,6}, medium = {2,3,7,8}, strong = {9,10,11}
\* partition the dealer cards 2-11, and the three encodings agree: for a
\* dealer card c in 2-11, get_dealer_strength(c) = g exactly when c is in
\* get_dealer_groups()[g], and the card lists of the dealer-group session for
\* the choices 1, 2, 3 are the weak, medium, strong groups.
C6_DealerGroupsAgree ==
    (Asked("get_dealer_strength") /\ dealer_card \in 2..11)
        => /\ \A g \in StrengthNames :
                dealer_strength = g <=> dealer_card \in Elems(get_dealer_groups[g])
           /\ Elems(get_dealer_groups["weak"]) = {4, 5, 6}
           /\ Elems(get_dealer_groups["medium"]) = {2, 3, 7, 8}
           /\ Elems(get_dealer_groups["strong"]) = {9, 10, 11}
           /\ Cardinality({g \in StrengthNames :
                             dealer_card \in Elems(get_dealer_groups[g])}) = 1
           /\ Elems(DealerGroupCards(1)) = Elems(get_dealer_groups["weak"])
           /\ Elems(DealerGroupCards(2)) = Elems(get_dealer_groups["medium"])
           /\ Elems(DealerGroupCards(3)) = Elems(get_dealer_groups["strong"])

C6_Witness ==
    /\ Asked("get_dealer_strength")
    /\ dealer_card = 8
    /\ dealer_strength = "medium"

\* a scenario has been returned by generate_scenario
ScenarioGenerated == pc = "scenario"

\* generate_hand_cards has returned (to a test or to generate_scenario)
CardsReturned == pc \in {"returned", "scenario"}

\* C7 (as stated): for every scenario any of the four session modes can
\* generate, whatever its hand type, the sum of the player's cards equals
\* the scenario's player total.
C7_ScenarioSumIsTotal ==
    ScenarioGenerated => Sum(player_cards) = player_total

\* C7 (amended): for every generated hard or soft scenario the sum of the
\* player's cards equals the player total; for every generated pair scenario
\* the hand is two cards that each equal the player total (the pair value),
\* so the cards sum to twice the player total.
C7_ScenarioSumIsTotalUnlessPair ==
    ScenarioGenerated
        => IF hand_type = "pair"
           THEN /\ player_cards = <<player_total, player_total>>
                /\ Sum(player_cards) = 2 * player_total
           ELSE Sum(player_cards) = player_total

C7_Witness ==
    /\ ScenarioGenerated
    /\ mode = "absolutes"
    /\ hand_type = "pair" /\ player_total = 8 /\ player_cards = <<8, 8>>

AllCardsIn(cards, lo, hi) == \A i \in 1..Len(cards) : cards[i] \in lo..hi

\* C8 (as stated): for every hard hand generate_hand_cards returns for a
\* total in 5-21 (and every hard scenario of the session modes), no card
\* equals 11 and every card lies in [2,10].
C8_HardCardsInRange ==
    (CardsReturned /\ hand_type = "hard" /\ player_total \in 5..21)
        => AllCardsIn(player_cards, 2, 10)

\* C8 (amended): for every hard hand generate_hand_cards returns for a total
\* in 5-21 other than 11, every card lies in [2,10]; for the total 11 the
\* hand is the single card 11.
C8_HardCardsInRangeExceptEleven ==
    (CardsReturned /\ hand_type = "hard" /\ player_total \in 5..21)
        => IF player_total = 11
           THEN player_cards = <<11>>
           ELSE AllCardsIn(player_cards, 2, 10)

C8_Witness ==
    /\ ScenarioGenerated
    /\ hand_type = "hard" /\ player_total = 11 /\ player_cards = <<11>>

\* C9: for every hard total in 5-21 and every sequence of random choices,
\* the cards returned by generate_hand_cards("hard", total) sum to total.
C9_HardCardsSumToTotal ==
    (CardsReturned /\ hand_type = "hard" /\ player_total \in 5..21)
        => Sum(player_cards) = player_total

C9_Witness ==
    /\ pc = "returned"
    /\ hand_type = "hard" /\ player_total = 21
    /\ Len(player_cards) >= 3
    /\ player_cards[Len(player_cards)] = 2

\* C10: for every hard total in 12-21 and every sequence of random choices,
\* generate_hand_cards("hard", total) returns at most 6 cards.
C10_HardAtMostSixCards ==
    (pc = "returned" /\ hand_type = "hard" /\ player_total \in 12..21)
        => Len(player_cards) <= 6

\* C11: for every hard total of 11 or less, generate_hand_cards("hard", total)
\* returns exactly one card whose value equals the total, without drawing a
\* random card (the peel-off loop is never entered).
C11_LowHardIsSingleCard ==
    (CardsReturned /\ hand_type = "hard" /\ player_total <= 11)
        => /\ player_cards = <<player_total>>
           /\ remaining = 0

C11_Witness ==
    /\ pc = "returned"
    /\ hand_type = "hard" /\ player_total = 11 /\ player_cards = <<11>>

\* the soft hand of 11 and total - 11
IsSoftHand(cards, total) ==
    /\ Len(cards) = 2
    /\ cards[1] = 11
    /\ cards[2] = total - 11

\* C12 (as stated): every generated soft hand is exactly two cards, one 11
\* and one other card equal to total - 11 that lies in [2,9]; for every soft
\* scenario of the session modes and for generate_hand_cards("soft", total)
\* over the soft totals 13-21 it is called with.
C12_SoftHandOtherCardInTwoToNine ==
    (CardsReturned /\ hand_type = "soft" /\ player_total \in 13..21)
        => /\ IsSoftHand(player_cards, player_total)
           /\ player_cards[2] \in 2..9

\* C12 (amended): every generated soft hand is exactly two cards, one 11 and
\* one other card equal to total - 11; the other card lies in [2,9] for every
\* soft scenario of the session modes and for generate_hand_cards("soft",
\* total) with total in 13-20, and it is 10 for the soft total 21.
C12_SoftHandOtherCardInTwoToTen ==
    (CardsReturned /\ hand_type = "soft" /\ player_total \in 13..21)
        => /\ IsSoftHand(player_cards, player_total)
           /\ IF pc = "scenario" \/ player_total \in 13..20
              THEN player_cards[2] \in 2..9
              ELSE player_cards = <<11, 10>>

C12_Witness ==
    /\ pc = "returned"
    /\ hand_type = "soft" /\ player_total = 21 /\ player_cards = <<11, 10>>

(***************************************************************************)
(* SpecStats: a Statistics object driven by arbitrary record_attempt and   *)
(* reset_session calls, as the statistics tests drive it.                  *)
(***************************************************************************)
MaxAttempts == 3

InitStats ==
    /\ pc = "constructed"
    /\ mode = "direct"
    /\ dealer_group_ = 0
    /\ hand_type_choice_ = 0
    /\ hand_type = "none"
    /\ player_total = 0
    /\ dealer_card = 0
    /\ player_cards = <<>>
    /\ remaining = 0
    /\ correct_action = "none"
    /\ explanation = "none"
    /\ absolute = FALSE
    /\ dealer_strength = "none"
    /\ called = {}
    /\ StatisticsInit
    /\ RunInit

sessionVars == <<mode, dealer_group_, hand_type_choice_, hand_type,
                 player_total, dealer_card, player_cards, remaining>>

CallRecordAttempt ==
    /\ pc \in {"constructed", "recorded", "reset"}
    /\ total_attempts_ < MaxAttempts
    /\ \E ht \in CategoryArgs, ds \in StrengthArgs, c \in BOOLEAN :
         /\ record_attempt(ht, ds, c)
         /\ Remember(ht, ds, c)
    /\ pc' = "recorded"
    /\ UNCHANGED <<sessionVars, chartVars, runVars, mainVars, generated>>

CallResetSession ==
    /\ pc \in {"constructed", "recorded", "reset"}
    /\ reset_session
    /\ recorded' = NoAttempts
    /\ pc' = "reset"
    /\ UNCHANGED <<sessionVars, chartVars, runVars, mainVars, generated>>

NextStats ==
    \/ CallRecordAttempt
    \/ CallResetSession

SpecStats == InitStats /\ [][NextStats]_vars

\* the attempts of the history that match a predicate on (hand_type,
\* dealer_strength, correct)
RECURSIVE SumOver(_, _)
SumOver(f, keys) ==
    IF keys = {} THEN 0
    ELSE LET k == CHOOSE x \in keys : TRUE
         IN f[k] + SumOver(f, keys \ {k})

Attempts(P(_)) == SumOver(recorded, {k \in AttemptKinds : P(k)})

\* the bucket that the attempts matching P amount to
BucketOf(P(_)) ==
    LET Right(k) == P(k) /\ k[3]
    IN [total |-> Attempts(P), correct |-> Attempts(Right)]

\* two percentages denote the same number
SamePercent(a, b) == a.num * b.den = b.num * a.den

\* 100 * correct / total of a bucket, 0 for an empty one
PercentOf(data) ==
    IF data.total = 0 THEN ZeroPercent ELSE Percentage(data.correct, data.total)

\* C13: record_attempt adds 1 to the global attempt count (and 1 to the
\* global correct count iff correct), the same to the hand_type bucket iff
\* hand_type is hard/soft/pair and, independently, the same to the
\* dealer_strength bucket iff dealer_strength is weak/medium/strong; an
\* unrecognized key changes no bucket and creates no key.  So after any
\* sequence of calls every counter is the number of attempts recorded under
\* its key and every accuracy is 100 * correct / total of those attempts.
C13_CountersMatchRecordedAttempts ==
    LET Every(k) == TRUE
    IN /\ [total |-> total_attempts_, correct |-> correct_answers_]
            = BucketOf(Every)
       /\ DOMAIN by_category_ = CategoryNames
       /\ DOMAIN by_dealer_strength_ = StrengthNames
       /\ \A c \in CategoryNames :
            LET Of(k) == k[1] = c
            IN /\ by_category_[c] = BucketOf(Of)
               /\ SamePercent(get_category_accuracy(c), PercentOf(BucketOf(Of)))
       /\ \A d \in StrengthNames :
            LET Of(k) == k[2] = d
            IN /\ by_dealer_strength_[d] = BucketOf(Of)
               /\ SamePercent(get_dealer_strength_accuracy(d),
                              PercentOf(BucketOf(Of)))
       /\ SamePercent(get_session_accuracy, PercentOf(BucketOf(Every)))

C13_Witness ==
    /\ pc = "recorded"
    /\ recorded[<<"other", "weak", TRUE>>] = 1
    /\ recorded[<<"hard", "other", FALSE>>] = 1
    /\ total_attempts_ = 2
    /\ by_category_["hard"] = [correct |-> 0, total |-> 1]
    /\ by_dealer_strength_["weak"] = [correct |-> 1, total |-> 1]

\* a percentage lies in [0,100]
InPercentRange(a) == a.den > 0 /\ 0 <= a.num /\ a.num <= 100 * a.den

\* C14: in every state reachable by record_attempt and reset_session calls,
\* 0 <= correct <= total holds for the global counters and for every bucket,
\* so the three accuracy getters return a value in [0,100], and they return
\* 0 when the relevant total is 0 or the key is unknown.
C14_AccuracyInRange ==
    /\ 0 <= correct_answers_ /\ correct_answers_ <= total_attempts_
    /\ \A c \in DOMAIN by_category_ :
         0 <= by_category_[c].correct
         /\ by_category_[c].correct <= by_category_[c].total
    /\ \A d \in DOMAIN by_dealer_strength_ :
         0 <= by_dealer_strength_[d].correct
         /\ by_dealer_strength_[d].correct <= by_dealer_strength_[d].total
    /\ InPercentRange(get_session_accuracy)
    /\ total_attempts_ = 0 => get_session_accuracy = ZeroPercent
    /\ \A c \in CategoryArgs :
         /\ InPercentRange(get_category_accuracy(c))
         /\ (c \notin CategoryNames \/ by_category_[c].total = 0)
               => get_category_accuracy(c) = ZeroPercent
    /\ \A d \in StrengthArgs :
         /\ InPercentRange(get_dealer_strength_accuracy(d))
         /\ (d \notin StrengthNames \/ by_dealer_strength_[d].total = 0)
               => get_dealer_strength_accuracy(d) = ZeroPercent

C14_Witness ==
    /\ pc = "recorded"
    /\ total_attempts_ = 2 /\ correct_answers_ = 1
    /\ by_dealer_strength_["strong"] = [correct |-> 1, total |-> 2]
    /\ by_category_["soft"].total = 0

\* the state of a freshly constructed Statistics object
IsFreshStatistics ==
    /\ total_attempts_ = 0
    /\ correct_answers_ = 0
    /\ by_category_ = [k \in CategoryNames |-> CategoryData]
    /\ by_dealer_strength_ = [k \in StrengthNames |-> CategoryData]

\* C15: reset_session, applied after any sequence of record_attempt calls,
\* returns the Statistics object to its freshly constructed state (all
\* counters zero, the same six bucket keys, every accuracy 0.0), and a second
\* reset_session changes nothing.
C15_ResetRestoresFreshState ==
    [][CallResetSession =>
         /\ IsFreshStatistics'
         /\ get_session_accuracy' = ZeroPercent
         /\ \A c \in CategoryArgs : get_category_accuracy(c)' = ZeroPercent
         /\ \A d \in StrengthArgs :
              get_dealer_strength_accuracy(d)' = ZeroPercent
         /\ (pc = "reset" => UNCHANGED statsVars)]_vars

C15_Witness ==
    /\ pc = "reset"
    /\ IsFreshStatistics

(***************************************************************************)
(* SpecRun: TrainingSession::run on a Statistics object.  The lines typed  *)
(* at the two prompts are sequences of characters drawn from small sets.   *)
(***************************************************************************)
ActionLines ==
    {<<>>, <<"q">>, <<"Q">>, <<"h">>, <<"S">>, <<"d">>, <<"p">>, <<"y">>,
     <<"x">>, <<"h", "i">>}

FeedbackLines == {<<>>, <<"q">>, <<"x">>}

\* std::toupper on the characters that are typed
toupper(ch) ==
    CASE ch = "q" -> "Q"
      [] ch = "h" -> "H"
      [] ch = "s" -> "S"
      [] ch = "d" -> "D"
      [] ch = "p" -> "P"
      [] ch = "y" -> "Y"
      [] ch = "x" -> "X"
      [] OTHER -> ch

\* get_user_action, given the line that std::getline read
get_user_action(input) ==
    IF input = <<>> THEN "none"
    ELSE IF toupper(input[1]) = "Q" THEN "none"
    ELSE toupper(input[1])

\* the value display_feedback returns, given the line that std::getline read
display_feedback(input) ==
    input # <<>> /\ toupper(input[1]) = "Q"

\* check_answer comparing the user's key as it was typed
check_answer_m(user, right) == user = right

\* TrainingSession::check_answer
check_answer(user, right) ==
    (IF user = "P" THEN "Y" ELSE user) = right

\* the summary at the end of run is printed iff total_count_ > 0
SessionSummary(total) == summary_printed' = (total > 0)

\* run from display_hand to the feedback prompt: the action is read; a quit
\* leaves the loop, anything else is looked up and compared.  The cards have
\* been displayed and are not read again, so they are dropped here.
UserAction ==
    /\ pc = "scenario"
    /\ mode # "direct"
    /\ \E input \in ActionLines :
         /\ user_action' = get_user_action(input)
         /\ answered' = IF user_action' = "none" THEN answered
                        ELSE answered + 1
         /\ IF user_action' = "none"
            THEN /\ pc' = "done"
                 /\ SessionSummary(total_count_)
                 /\ UNCHANGED <<correct_action, correct, explanation,
                                player_cards, remaining>>
            ELSE /\ correct_action' =
                      get_correct_action(hand_type, player_total, dealer_card)
                 /\ correct' = check_answer(user_action', correct_action')
                 /\ explanation' =
                      get_explanation(hand_type, player_total, dealer_card)
                 /\ player_cards' = <<>>
                 /\ remaining' = 0
                 /\ pc' = "feedback"
                 /\ UNCHANGED summary_printed
    /\ UNCHANGED <<mode, dealer_group_, hand_type_choice_, hand_type,
                   player_total, dealer_card, absolute, dealer_strength, called,
                   statsVars, question_count, correct_count_, total_count_,
                   quit_requested, generated, choice>>

\* the end of a question with a quit at the feedback prompt dropping the attempt
Feedback_quitfirst ==
    /\ pc = "feedback"
    /\ \E input \in FeedbackLines :
         quit_requested' = display_feedback(input)
    /\ dealer_strength' = get_dealer_strength(dealer_card)
    /\ IF quit_requested'
       THEN UNCHANGED statsVars
       ELSE /\ record_attempt(hand_type, dealer_strength', correct)
            /\ Remember(hand_type, dealer_strength', correct)
    /\ question_count' = question_count + 1
    /\ correct_count_' = IF correct THEN correct_count_ + 1 ELSE correct_count_
    /\ total_count_' = total_count_ + 1
    /\ IF quit_requested' \/ ~(question_count' < get_max_questions)
       THEN /\ pc' = "done"
            /\ SessionSummary(total_count_')
            /\ UNCHANGED <<hand_type, player_total, dealer_card, user_action,
                           correct, correct_action, explanation>>
       ELSE /\ pc' = "ready"
            /\ hand_type' = "none"
            /\ player_total' = 0
            /\ dealer_card' = 0
            /\ user_action' = "none"
            /\ correct' = FALSE
            /\ correct_action' = "none"
            /\ explanation' = "none"
            /\ UNCHANGED summary_printed
    /\ UNCHANGED <<mode, dealer_group_, hand_type_choice_, player_cards,
                   remaining, absolute, called, generated, mainVars>>

\* the end of a question with the quit of the feedback prompt not honoured
Feedback_m ==
    /\ pc = "feedback"
    /\ \E input \in FeedbackLines :
         quit_requested' = display_feedback(input)
    /\ dealer_strength' = get_dealer_strength(dealer_card)
    /\ record_attempt(hand_type, dealer_strength', correct)
    /\ Remember(hand_type, dealer_strength', correct)
    /\ question_count' = question_count + 1
    /\ correct_count_' = IF correct THEN correct_count_ + 1 ELSE correct_count_
    /\ total_count_' = total_count_ + 1
    /\ IF ~(question_count' < get_max_questions)
       THEN /\ pc' = "done"
            /\ SessionSummary(total_count_')
            /\ UNCHANGED <<hand_type, player_total, dealer_card, user_action,
                           correct, correct_action, explanation>>
       ELSE /\ pc' = "ready"
            /\ hand_type' = "none"
            /\ player_total' = 0
            /\ dealer_card' = 0
            /\ user_action' = "none"
            /\ correct' = FALSE
            /\ correct_action' = "none"
            /\ explanation' = "none"
            /\ UNCHANGED summary_printed
    /\ UNCHANGED <<mode, dealer_group_, hand_type_choice_, player_cards,
                   remaining, absolute, called, generated, mainVars>>

\* run from the feedback prompt to the head of the while loop or to the end:
\* the continue-or-quit line is read, the attempt is recorded and counted,
\* and the loop ends on a quit or when the questions are used up
Feedback ==
    /\ pc = "feedback"
    /\ \E input \in FeedbackLines :
         quit_requested' = display_feedback(input)
    /\ dealer_strength' = get_dealer_strength(dealer_card)
    /\ record_attempt(hand_type, dealer_strength', correct)
    /\ Remember(hand_type, dealer_strength', correct)
    /\ question_count' = question_count + 1
    /\ correct_count_' = IF correct THEN correct_count_ + 1 ELSE correct_count_
    /\ total_count_' = total_count_ + 1
    /\ IF quit_requested' \/ ~(question_count' < get_max_questions)
       THEN /\ pc' = "done"
            /\ SessionSummary(total_count_')
            /\ UNCHANGED <<hand_type, player_total, dealer_card, user_action,
                           correct, correct_action, explanation>>
       ELSE /\ pc' = "ready"
            /\ hand_type' = "none"
            /\ player_total' = 0
            /\ dealer_card' = 0
            /\ user_action' = "none"
            /\ correct' = FALSE
            /\ correct_action' = "none"
            /\ explanation' = "none"
            /\ UNCHANGED summary_printed
    /\ UNCHANGED <<mode, dealer_group_, hand_type_choice_, player_cards,
                   remaining, absolute, called, generated, mainVars>>

SessionModes == {"random", "dealer_groups", "hand_types", "absolutes"}

\* a session object and a Statistics object, both freshly constructed
InitRunFresh ==
    /\ pc = "start"
    /\ mode \in SessionModes
    /\ dealer_group_ = 0
    /\ hand_type_choice_ = 0
    /\ hand_type = "none"
    /\ player_total = 0
    /\ dealer_card = 0
    /\ player_cards = <<>>
    /\ remaining = 0
    /\ correct_action = "none"
    /\ explanation = "none"
    /\ absolute = FALSE
    /\ dealer_strength = "none"
    /\ called = {}
    /\ StatisticsInit
    /\ RunInit

\* the hand type and dealer strength of the questions that a late session
\* has answered: a pair against a strong card unless the session is focused
LateCategory ==
    IF mode # "hand_types" THEN "pair"
    ELSE IF hand_type_choice_ = 1 THEN "hard"
    ELSE IF hand_type_choice_ = 2 THEN "soft"
    ELSE "pair"

LateStrength ==
    IF mode # "dealer_groups" THEN "strong"
    ELSE IF dealer_group_ = 1 THEN "weak"
    ELSE IF dealer_group_ = 2 THEN "medium"
    ELSE "strong"

\* a session at the head of its while loop that has answered all but the
\* last MaxAsked questions, each correctly, without a quit
InitRunLate ==
    /\ pc = "ready"
    /\ mode \in SessionModes
    /\ dealer_group_ \in IF mode = "dealer_groups" THEN SubChoices \ {0} ELSE {0}
    /\ hand_type_choice_ \in IF mode = "hand_types" THEN SubChoices \ {0} ELSE {0}
    /\ hand_type = "none"
    /\ player_total = 0
    /\ dealer_card = 0
    /\ player_cards = <<>>
    /\ remaining = 0
    /\ correct_action = "none"
    /\ explanation = "none"
    /\ absolute = FALSE
    /\ dealer_strength = get_dealer_strength(11)
    /\ called = {}
    /\ question_count = get_max_questions - MaxAsked
    /\ correct_count_ = question_count
    /\ total_count_ = question_count
    /\ generated = question_count
    /\ answered = question_count
    /\ choice = 0
    /\ user_action = "none"
    /\ correct = FALSE
    /\ quit_requested = FALSE
    /\ summary_printed = FALSE
    /\ total_attempts_ = question_count
    /\ correct_answers_ = question_count
    /\ by_category_ =
         [k \in CategoryNames |->
            IF k = LateCategory
            THEN [correct |-> question_count, total |-> question_count]
            ELSE CategoryData]
    /\ by_dealer_strength_ =
         [k \in StrengthNames |->
            IF k = LateStrength
            THEN [correct |-> question_count, total |-> question_count]
            ELSE CategoryData]
    /\ recorded =
         [NoAttempts EXCEPT ![<<LateCategory, LateStrength, TRUE>>] =
            question_count]

InitRun == InitRunFresh \/ InitRunLate

NextRun ==
    \/ SetupSession
    \/ GenerateScenario
    \/ PeelCard
    \/ FinishCards
    \/ UserAction
    \/ Feedback

SpecRun == InitRun /\ [][NextRun]_vars

(***************************************************************************)
(* Claims about the session run                                            *)
(***************************************************************************)
\* the question budget as the claim states it
StatedBudget == IF mode = "absolutes" THEN 20 ELSE 50

InQuestion == pc \in {"loop", "scenario", "feedback"}

RunEnded == pc \in {"done", "cancelled"}

\* a measure of what is left of a run: the questions left, then the steps
\* left within the current question
StepsLeft ==
    IF pc = "start" THEN (StatedBudget + 1) * 64
    ELSE IF RunEnded THEN 0
    ELSE (StatedBudget - question_count) * 64
         + (IF pc = "ready" THEN 40
            ELSE IF pc = "loop" THEN 10 + remaining
            ELSE IF pc = "scenario" THEN 5
            ELSE 2)

\* the loop of run is left for one of its three reasons
EndedForReason ==
    pc = "done" =>
        \/ user_action = "none"
        \/ quit_requested
        \/ question_count = StatedBudget

\* C16: a run generates a scenario only at the head of its loop, while fewer
\* than the budget (50, absolutes 20) questions are answered and no quit has
\* been read; one scenario is generated per question; a quit at either
\* prompt ends the run, after which nothing happens; every step brings the
\* run nearer its end, so it ends after at most the budget of scenarios.
C16_ScenariosWithinBudgetUntilQuit ==
    /\ [](/\ generated <= StatedBudget
          /\ question_count <= StatedBudget
          /\ (InQuestion => /\ question_count < StatedBudget
                            /\ generated = question_count + 1
                            /\ ~quit_requested)
          /\ (pc = "ready" => generated = question_count /\ ~quit_requested)
          /\ (quit_requested => pc = "done")
          /\ EndedForReason
          /\ (pc = "ready" /\ Explored(question_count) => ENABLED GenerateScenario))
    /\ [][/\ ~RunEnded
          /\ StepsLeft' < StepsLeft
          /\ (generated' # generated =>
                /\ generated' = generated + 1
                /\ pc = "ready"
                /\ question_count < StatedBudget
                /\ ~quit_requested)
          /\ (pc = "scenario" /\ user_action' = "none" => pc' = "done")
          /\ (quit_requested' => pc' = "done")]_vars

\* an absolutes session that answered all 20 questions without a quit
C16_Witness ==
    /\ mode = "absolutes"
    /\ pc = "done"
    /\ ~quit_requested
    /\ user_action # "none"
    /\ question_count = 20
    /\ generated = 20

\* C17: once the sub-choice of a dealer-group or hand-type session is read
\* as 0, the run is over: no scenario is generated, no hand displayed, no
\* action read, no summary printed and the Statistics object is as it was.
C17_CancelledRunDoesNothing ==
    ( /\ mode \in {"dealer_groups", "hand_types"}
      /\ pc # "start"
      /\ dealer_group_ = 0
      /\ hand_type_choice_ = 0 )
    => /\ pc = "cancelled"
       /\ generated = 0
       /\ hand_type = "none"
       /\ dealer_card = 0
       /\ player_cards = <<>>
       /\ user_action = "none"
       /\ question_count = 0
       /\ total_count_ = 0
       /\ ~summary_printed
       /\ IsFreshStatistics
       /\ recorded = NoAttempts

C17_Witness ==
    /\ mode = "hand_types"
    /\ pc = "cancelled"
    /\ hand_type_choice_ = 0
    /\ generated = 0

ValidActions == {"H", "S", "D", "P", "Y"}

\* C18: a line at the action prompt that is empty or denotes none of Hit,
\* Stand, Double, Split is a quit: the action read is then the quit value,
\* so the run never holds an action other than those four or the quit value
\* (and never proceeds to feedback and recording with one).
C18_InvalidActionInputIsQuit ==
    user_action \notin ValidActions => user_action = "none" /\ pc # "feedback"

\* the user's action with the split key read as Split
Canonical(action) == IF action = "P" THEN "Y" ELSE action

\* C19: the answer is judged correct iff the user's action equals the
\* correct action or is the split key P against the correct action Y, and
\* the attempt is recorded as correct exactly when the user's action, with
\* P read as Split, equals get_correct_action for the scenario.
C19_SplitKeyCountsAsSplit ==
    /\ [](pc = "feedback" =>
            /\ correct_action =
                 get_correct_action(hand_type, player_total, dealer_card)
            /\ correct <=> \/ user_action = correct_action
                           \/ user_action = "P" /\ correct_action = "Y")
    /\ [][pc = "feedback" /\ pc' # "feedback" =>
            LET right == Canonical(user_action) =
                           get_correct_action(hand_type, player_total,
                                              dealer_card)
                key == <<hand_type, get_dealer_strength(dealer_card), right>>
            IN /\ total_attempts_' = total_attempts_ + 1
               /\ correct_answers_' =
                    correct_answers_ + (IF right THEN 1 ELSE 0)
               /\ recorded' = [recorded EXCEPT ![key] = @ + 1]]_vars

\* a split answered with the key P was recorded as correct
C19_Witness ==
    /\ pc = "done"
    /\ user_action = "P"
    /\ correct_action = "Y"
    /\ correct
    /\ total_attempts_ = 1
    /\ correct_answers_ = 1

\* the group and the hand type that the sub-choices 1, 2, 3 select
SelectedGroup ==
    IF dealer_group_ = 1 THEN "weak"
    ELSE IF dealer_group_ = 2 THEN "medium"
    ELSE "strong"

SelectedHandType ==
    IF hand_type_choice_ = 1 THEN "hard"
    ELSE IF hand_type_choice_ = 2 THEN "soft"
    ELSE "pair"

\* C20: in a dealer-group session started with choice 1, 2 or 3 every
\* generated dealer card is in the weak, medium or strong group and only
\* that dealer-strength bucket has attempts; in a hand-type session started
\* with choice 1, 2 or 3 every scenario is hard, soft or pair and only that
\* hand-type bucket has attempts.
C20_FocusedSessionStaysInSelection ==
    /\ (mode = "dealer_groups" /\ dealer_group_ \in 1..3) =>
         /\ dealer_card # 0 =>
              dealer_card \in Elems(get_dealer_groups[SelectedGroup])
         /\ \A k \in StrengthNames \ {SelectedGroup} :
              by_dealer_strength_[k] = CategoryData
         /\ by_dealer_strength_[SelectedGroup].total = total_attempts_
    /\ (mode = "hand_types" /\ hand_type_choice_ \in 1..3) =>
         /\ hand_type # "none" => hand_type = SelectedHandType
         /\ \A k \in CategoryNames \ {SelectedHandType} :
              by_category_[k] = CategoryData
         /\ by_category_[SelectedHandType].total = total_attempts_

\* a medium dealer-group session has recorded an attempt
C20_Witness ==
    /\ mode = "dealer_groups"
    /\ dealer_group_ = 2
    /\ pc = "done"
    /\ dealer_card \in {2, 3, 7, 8}
    /\ by_dealer_strength_["medium"].total = 1

(***************************************************************************)
(* Claims about the absolutes session, termination and table lookups       *)
(***************************************************************************)
AbsoluteSituations ==
    {<<"pair", 11>>, <<"pair", 8>>, <<"pair", 10>>, <<"pair", 5>>,
     <<"hard", 17>>, <<"hard", 18>>, <<"hard", 19>>, <<"hard", 20>>,
     <<"soft", 19>>, <<"soft", 20>>}

\* C21: every scenario of the absolutes session is one of the ten fixed
\* situations with a dealer card in 2-11 and is_absolute_rule true, and at
\* the head of the loop each of the ten situations can be generated against
\* each dealer card.
C21_AbsolutesScenariosInFixedSet ==
    /\ (mode = "absolutes" /\ pc \in {"loop", "scenario"}) =>
         /\ <<hand_type, player_total>> \in AbsoluteSituations
         /\ dealer_card \in 2..11
         /\ is_absolute_rule(hand_type, player_total, dealer_card)
    /\ (mode = "absolutes" /\ pc = "ready") =>
         \A s \in AbsoluteSituations : \A d \in 2..11 :
           ENABLED (/\ GenerateScenario
                    /\ hand_type' = s[1]
                    /\ player_total' = s[2]
                    /\ dealer_card' = d)

C21_Witness ==
    /\ mode = "absolutes"
    /\ ScenarioGenerated
    /\ hand_type = "hard" /\ player_total = 17 /\ dealer_card = 11
    /\ Len(player_cards) = 3

\* the code proceeds whenever it can take a step
SpecGenFair == SpecGen /\ WF_vars(NextGen)

GenerationOver == pc \in {"returned", "scenario", "cancelled"}

\* C24: each iteration of the peel-off loop lowers `remaining` by at least
\* 2 and leaves it at 2 or more; a call of generate_hand_cards or of
\* generate_scenario that has begun always returns; and at the head of the
\* loop every mode can generate its scenario.
C24_GenerationTerminates ==
    /\ [][pc = "loop" /\ pc' = "loop" =>
            /\ remaining' <= remaining - 2
            /\ remaining' >= 2]_vars
    /\ [](pc = "ready" => ENABLED GenerateScenario)
    /\ (pc = "start" ~> GenerationOver)
    /\ (pc = "loop" ~> GenerationOver)

\* a hard 20 of the absolutes session whose cards took three iterations
C24_Witness ==
    /\ mode = "absolutes"
    /\ ScenarioGenerated
    /\ hand_type = "hard" /\ player_total = 20
    /\ Len(player_cards) = 5

\* the table that get_correct_action consults for a hand type
TableOf(ht) ==
    IF ht = "pair" THEN pairs_
    ELSE IF ht = "soft" THEN soft_totals_
    ELSE hard_totals_

\* C25: every scenario a session looks up has its dealer card in 2-11 and a
\* hard total in 5-20, a soft total in 13-20 or a pair value in 2-11, and
\* its key is in the table, so the lookup never misses.
C25_SessionLookupsAreInTable ==
    (ScenarioGenerated \/ pc = "feedback") =>
        /\ dealer_card \in 2..11
        /\ \/ hand_type = "hard" /\ player_total \in 5..20
           \/ hand_type = "soft" /\ player_total \in 13..20
           \/ hand_type = "pair" /\ player_total \in 2..11
        /\ <<player_total, dealer_card>> \in DOMAIN TableOf(hand_type)
        /\ (pc = "feedback" =>
              correct_action = TableOf(hand_type)[<<player_total, dealer_card>>])

C25_Witness ==
    /\ pc = "feedback"
    /\ mode = "hand_types"
    /\ hand_type = "hard" /\ player_total = 5 /\ dealer_card = 11
    /\ correct_action = "H"

\* C28: for a hard total of 12 or more generate_hand_cards returns at least
\* two cards, never the single card equal to the total, and the while loop
\* is never left by its break (it is left only with remaining <= 10).
C28_HardTwelveUpHasTwoCards ==
    /\ []((CardsReturned /\ hand_type = "hard" /\ player_total >= 12) =>
            /\ Len(player_cards) >= 2
            /\ player_cards # <<player_total>>)
    /\ [][pc = "loop" /\ pc' # "loop" => remaining <= 10 /\ remaining >= 2]_vars

C28_Witness ==
    /\ pc = "returned"
    /\ hand_type = "hard" /\ player_total = 12
    /\ player_cards = <<10, 2>>

\* C29: for a hand type other than pair and soft, recognized or not,
\* get_correct_action returns the hard rule for (total, dealer) when the
\* hard table has the key, which for an unrecognized hand type can be
\* Stand or Double.
C29_UnknownHandTypeIsHard ==
    ( /\ Asked("get_correct_action")
      /\ hand_type \notin {"pair", "soft"}
      /\ InTable("hard", player_total, dealer_card) )
        => correct_action = HardRule(player_total, dealer_card)

C29_Witness ==
    /\ Asked("get_correct_action")
    /\ hand_type = "other" /\ player_total = 11 /\ dealer_card = 6
    /\ correct_action = "D"

(***************************************************************************)
(* Claims about what a session records                                     *)
(***************************************************************************)
\* the number of attempts that have been recorded
AttemptsRecorded == SumOver(recorded, AttemptKinds)

\* C26: in a run the attempts recorded are the questions answered with a
\* non-quit action: a quit at the action prompt records nothing, an answer
\* is recorded exactly once when its feedback prompt returns, quit or not,
\* under the scenario's hand type and get_dealer_strength of its dealer
\* card, and no other step of the run touches the Statistics object.
C26_RecordedAreAnsweredPrompts ==
    /\ [](total_attempts_ = question_count)
    /\ [][IF pc = "feedback"
          THEN LET key == <<hand_type, get_dealer_strength(dealer_card),
                            correct>>
               IN /\ recorded' = [recorded EXCEPT ![key] = @ + 1]
                  /\ total_attempts_' = total_attempts_ + 1
                  /\ question_count' = question_count + 1
                  /\ (quit_requested' => pc' = "done")
          ELSE /\ UNCHANGED statsVars
               /\ UNCHANGED question_count
               /\ (pc = "scenario" =>
                     (user_action' = "none" <=> pc' = "done"))]_vars

\* an answer followed by a quit at the feedback prompt was recorded
C26_Witness ==
    /\ pc = "done"
    /\ quit_requested
    /\ user_action = "S"
    /\ question_count = 1
    /\ total_attempts_ = 1
    /\ AttemptsRecorded = 1

BucketTotals(buckets) ==
    SumOver([k \in DOMAIN buckets |-> buckets[k].total], DOMAIN buckets)

BucketCorrects(buckets) ==
    SumOver([k \in DOMAIN buckets |-> buckets[k].correct], DOMAIN buckets)

\* C27: while sessions run against a Statistics object the totals of the
\* hard, soft and pair buckets add up to the global attempt count, as do
\* the totals of the weak, medium and strong buckets, and the correct
\* counts add up to the global correct count in the same way.
C27_BucketsSumToGlobal ==
    /\ DOMAIN by_category_ = {"hard", "soft", "pair"}
    /\ DOMAIN by_dealer_strength_ = {"weak", "medium", "strong"}
    /\ BucketTotals(by_category_) = total_attempts_
    /\ BucketTotals(by_dealer_strength_) = total_attempts_
    /\ BucketCorrects(by_category_) = correct_answers_
    /\ BucketCorrects(by_dealer_strength_) = correct_answers_

\* a session has ended after a wrong answer to a soft hand against a 7
C27_Witness ==
    /\ pc = "done"
    /\ hand_type = "soft" /\ dealer_card = 7
    /\ ~correct
    /\ total_attempts_ = correct_answers_ + 1
    /\ by_category_["soft"].total = 1
    /\ by_dealer_strength_["medium"].total >= 1

\* C30: a sub-choice other than 0, 1, 2, 3 does not cancel: the session
\* reaches its loop, can generate, and its scenarios are those of Strong
\* (dealer card 9, 10 or 11) or of Pairs, recorded in that bucket only.
C30_OnlyZeroCancels ==
    /\ (mode = "dealer_groups" /\ pc # "start" /\ dealer_group_ \notin 0..3) =>
         /\ pc # "cancelled"
         /\ (pc = "ready" /\ Explored(question_count) =>
               ENABLED GenerateScenario)
         /\ (dealer_card # 0 => dealer_card \in {9, 10, 11})
         /\ by_dealer_strength_["strong"].total = total_attempts_
    /\ (mode = "hand_types" /\ pc # "start" /\ hand_type_choice_ \notin 0..3) =>
         /\ pc # "cancelled"
         /\ (pc = "ready" /\ Explored(question_count) =>
               ENABLED GenerateScenario)
         /\ (hand_type # "none" => hand_type = "pair")
         /\ by_category_["pair"].total = total_attempts_

\* a hand-type session started with choice 4 has recorded a pair
C30_Witness ==
    /\ mode = "hand_types"
    /\ hand_type_choice_ = 4
    /\ pc = "done"
    /\ hand_type = "pair"
    /\ question_count = 1
    /\ by_category_["pair"].total = 1

(***************************************************************************)
(* SpecMain: the interactive menu loop of main on its one Statistics       *)
(* object.  A menu choice 1-4 constructs a session and runs it with the    *)
(* steps of SpecRun; when run returns the session object is destroyed.     *)
(***************************************************************************)
MaxMenuChoice == 7

\* what display_menu can return
MenuChoices == 0..MaxMenuChoice

\* the sessions explored are those begun before any question was answered
\* and those begun after PriorAnswers and fewer than MaxShared more answers
MaxShared == 1

\* the questions of one complete random session
PriorAnswers == 50

SharedExplored ==
    \/ answered = 0
    \/ answered >= PriorAnswers /\ answered < PriorAnswers + MaxShared

\* the session class that main constructs for a menu choice
SessionOfChoice(c) ==
    IF c = 1 THEN "random"
    ELSE IF c = 2 THEN "dealer_groups"
    ELSE IF c = 3 THEN "hand_types"
    ELSE "absolutes"

\* no session object exists: the members and the locals of run hold their
\* initial values
NoSession ==
    /\ dealer_group_' = 0
    /\ hand_type_choice_' = 0
    /\ hand_type' = "none"
    /\ player_total' = 0
    /\ dealer_card' = 0
    /\ player_cards' = <<>>
    /\ remaining' = 0
    /\ correct_action' = "none"
    /\ explanation' = "none"
    /\ dealer_strength' = "none"
    /\ question_count' = 0
    /\ correct_count_' = 0
    /\ total_count_' = 0
    /\ user_action' = "none"
    /\ correct' = FALSE
    /\ quit_requested' = FALSE
    /\ generated' = 0
    /\ summary_printed' = FALSE

\* a menu choice 1-4 with a Statistics object constructed for the session
StartSession_m ==
    /\ pc = "menu"
    /\ SharedExplored
    /\ \E c \in MenuChoices \cap 1..4 :
         /\ choice' = c
         /\ mode' = SessionOfChoice(c)
    /\ NoSession
    /\ pc' = "start"
    /\ total_attempts_' = 0
    /\ correct_answers_' = 0
    /\ by_category_' = [k \in CategoryNames |-> CategoryData]
    /\ by_dealer_strength_' = [k \in StrengthNames |-> CategoryData]
    /\ recorded' = NoAttempts
    /\ UNCHANGED <<absolute, called, answered>>

\* main, choice 1-4: the session object is constructed and run(stats) begins
StartSession ==
    /\ pc = "menu"
    /\ SharedExplored
    /\ \E c \in MenuChoices \cap 1..4 :
         /\ choice' = c
         /\ mode' = SessionOfChoice(c)
    /\ NoSession
    /\ pc' = "start"
    /\ UNCHANGED <<absolute, called, statsVars, answered>>

\* main, when run(stats) returns: the session object goes out of scope and
\* the loop is back at display_menu
ReturnToMenu ==
    /\ pc \in {"done", "cancelled"}
    /\ NoSession
    /\ mode' = "none"
    /\ pc' = "menu"
    /\ UNCHANGED <<absolute, called, statsVars, mainVars>>

\* main, choice 5: stats.display_progress(), a const member function
ViewStatistics ==
    /\ pc = "menu"
    /\ choice' = 5
    /\ UNCHANGED <<pc, mode, dealer_group_, hand_type_choice_, hand_type,
                   player_total, dealer_card, player_cards, remaining,
                   chartVars, statsVars, runVars, generated, answered>>

\* main, choice 6: the loop is left and the process exits
QuitMenu ==
    /\ pc = "menu"
    /\ choice' = 6
    /\ pc' = "exited"
    /\ UNCHANGED <<mode, dealer_group_, hand_type_choice_, hand_type,
                   player_total, dealer_card, player_cards, remaining,
                   chartVars, statsVars, runVars, generated, answered>>

\* main, any other choice: "Invalid choice. Please try again."
InvalidChoice ==
    /\ pc = "menu"
    /\ choice' \in MenuChoices \ 1..6
    /\ UNCHANGED <<pc, mode, dealer_group_, hand_type_choice_, hand_type,
                   player_total, dealer_card, player_cards, remaining,
                   chartVars, statsVars, runVars, generated, answered>>

\* main at its first display_menu
InitMainFresh ==
    /\ pc = "menu"
    /\ mode = "none"
    /\ dealer_group_ = 0
    /\ hand_type_choice_ = 0
    /\ hand_type = "none"
    /\ player_total = 0
    /\ dealer_card = 0
    /\ player_cards = <<>>
    /\ remaining = 0
    /\ correct_action = "none"
    /\ explanation = "none"
    /\ absolute = FALSE
    /\ dealer_strength = "none"
    /\ called = {}
    /\ StatisticsInit
    /\ RunInit

\* main back at display_menu after a complete random session whose
\* questions were all pairs against a strong card, answered correctly
InitMainLate ==
    /\ pc = "menu"
    /\ mode = "none"
    /\ dealer_group_ = 0
    /\ hand_type_choice_ = 0
    /\ hand_type = "none"
    /\ player_total = 0
    /\ dealer_card = 0
    /\ player_cards = <<>>
    /\ remaining = 0
    /\ correct_action = "none"
    /\ explanation = "none"
    /\ absolute = FALSE
    /\ dealer_strength = "none"
    /\ called = {}
    /\ question_count = 0
    /\ correct_count_ = 0
    /\ total_count_ = 0
    /\ user_action = "none"
    /\ correct = FALSE
    /\ quit_requested = FALSE
    /\ generated = 0
    /\ summary_printed = FALSE
    /\ answered = PriorAnswers
    /\ choice = 1
    /\ total_attempts_ = PriorAnswers
    /\ correct_answers_ = PriorAnswers
    /\ by_category_ =
         [k \in CategoryNames |->
            IF k = "pair"
            THEN [correct |-> PriorAnswers, total |-> PriorAnswers]
            ELSE CategoryData]
    /\ by_dealer_strength_ =
         [k \in StrengthNames |->
            IF k = "strong"
            THEN [correct |-> PriorAnswers, total |-> PriorAnswers]
            ELSE CategoryData]
    /\ recorded =
         [NoAttempts EXCEPT ![<<"pair", "strong", TRUE>>] = PriorAnswers]

InitMain == InitMainFresh \/ InitMainLate

NextMain ==
    \/ StartSession
    \/ SetupSession
    \/ GenerateScenario
    \/ PeelCard
    \/ FinishCards
    \/ UserAction
    \/ Feedback
    \/ ReturnToMenu
    \/ ViewStatistics
    \/ QuitMenu
    \/ InvalidChoice

SpecMain == InitMain /\ [][NextMain]_vars

\* C22: in the menu loop the global attempt count of the one Statistics
\* object equals the number of questions answered in all sessions so far
\* (one less while the feedback of an answer is on display), it never
\* decreases, and View Statistics (5) or an invalid choice changes no
\* counter, bucket or accuracy.
C22_SharedStatisticsCountAllSessions ==
    /\ [](total_attempts_ = IF pc = "feedback" THEN answered - 1
                            ELSE answered)
    /\ [][/\ total_attempts_' >= total_attempts_
          /\ correct_answers_' >= correct_answers_
          /\ (pc = "menu" /\ choice' \notin 1..4 => UNCHANGED statsVars)
          /\ (pc = "menu" /\ choice' \in 1..4 =>
                UNCHANGED statsVars /\ pc' = "start")]_vars

\* back at the menu after a second session added one answer to the fifty
\* of the first, the statistics having been viewed
C22_Witness ==
    /\ pc = "menu"
    /\ choice = 5
    /\ answered = 51
    /\ total_attempts_ = 51
    /\ by_category_["hard"].total = 1

\* C23: at the menu the user has a choice that zeroes all counters of the
\* Statistics object once attempts have been recorded.
C23_ResetReachableFromMenu ==
    (pc = "menu" /\ total_attempts_ > 0) =>
        ENABLED (/\ StartSession \/ ViewStatistics \/ QuitMenu
                      \/ InvalidChoice
                 /\ total_attempts_' = 0
                 /\ correct_answers_' = 0)

====
